---- MODULE Spec2Model ----
(***************************************************************************)
(* batch_generator.py: create_data -> write_to_csv -> add_id ->            *)
(* update_datetime, over one output file.                                  *)
(*                                                                         *)
(* The file is modelled by its text, character by character: a writer     *)
(* truncates it when it opens it and later puts its text at the offset of  *)
(* its handle; a reader splits the text into lines and fields.  An         *)
(* in-memory polars DataFrame holds typed cells, obtained from the text by *)
(* dtype inference and parsing and turned back into text on write.         *)
(* Provider text (names, addresses, ...) is sampled from values that are   *)
(* not numeric literals, except the phone number, which the provider also  *)
(* returns as bare digits, with or without a leading zero.                 *)
(***************************************************************************)
EXTENDS Integers, Sequences, FiniteSets, TLC

(* ------------------------------ bounds -------------------------------- *)
\* largest --records value explored by the pipeline
MaxRecords == 2
\* number of distinct provider draws a record is generated from
MaxSample == 4
\* number of patcher calls made on one file by the patcher harness
MaxCalls == 3
\* number of distinct provider draws behind the files given to the patcher
PatcherSample == 2
\* rows of each invocation's batch when two invocations share a path
ConcRecords == 1
\* width of the slices explored at both ends of the random integer ranges
DurationSpan == 6
DownSpan == 2
UpSpan == 2

(* ------------------------- program constants -------------------------- *)
MinDuration == 30
MaxDuration == 7200
MinDown == 10
MaxDown == 150
MinUp == 5
MaxUp == 100

(* ------------------------------ text ---------------------------------- *)
Digits == <<"0", "1", "2", "3", "4", "5", "6", "7", "8", "9">>

Range(s) == {s[i] : i \in 1..Len(s)}

IsDigit(c) == c \in Range(Digits)

DigitVal(c) == CHOOSE n \in 0..9 : Digits[n + 1] = c

Pow10(e) == IF e = 0 THEN 1 ELSE IF e = 1 THEN 10 ELSE IF e = 2 THEN 100
            ELSE IF e = 3 THEN 1000 ELSE 10000

RECURSIVE NatToStr(_)
\* str(n) for n >= 0: decimal digits, no leading zeros
NatToStr(n) == IF n < 10 THEN <<Digits[n + 1]>>
               ELSE NatToStr(n \div 10) \o <<Digits[(n % 10) + 1]>>

\* str(n) of a Python int, and polars' text of an Int64
IntToStr(n) == IF n < 0 THEN <<"-">> \o NatToStr(0 - n) ELSE NatToStr(n)

RECURSIVE ZeroPad(_, _)
\* n in exactly w digits (%02d, %04d)
ZeroPad(n, w) == IF w = 0 THEN <<>>
                 ELSE ZeroPad(n \div 10, w - 1) \o <<Digits[(n % 10) + 1]>>

RECURSIVE DigitsToNat(_)
DigitsToNat(cs) == IF cs = <<>> THEN 0
                   ELSE 10 * DigitsToNat(SubSeq(cs, 1, Len(cs) - 1))
                        + DigitVal(cs[Len(cs)])

AllDigits(cs) == cs # <<>> /\ \A i \in 1..Len(cs) : IsDigit(cs[i])

\* position of the first "." in cs, 0 when there is none
DotAt(cs) == IF \E i \in 1..Len(cs) : cs[i] = "."
             THEN CHOOSE i \in 1..Len(cs) :
                      cs[i] = "." /\ \A j \in 1..(i - 1) : cs[j] # "."
             ELSE 0

Unsigned(cs) == IF cs # <<>> /\ cs[1] = "-" THEN SubSeq(cs, 2, Len(cs)) ELSE cs

IsIntLiteral(cs) == AllDigits(Unsigned(cs))

IsFloatLiteral(cs) ==
    LET u == Unsigned(cs)
        d == DotAt(u)
    IN d > 1 /\ d < Len(u)
       /\ AllDigits(SubSeq(u, 1, d - 1))
       /\ AllDigits(SubSeq(u, d + 1, Len(u)))

(* ----------------------------- typed cells ---------------------------- *)
\* A value in memory: a Python str/int/float, or a polars cell.  A float is
\* held as its shortest decimal, m / 10^e with no trailing zero in m.
NullCell == [t |-> "null", v |-> <<>>, m |-> 0, e |-> 0]
StrCell(cs) == [t |-> "str", v |-> cs, m |-> 0, e |-> 0]
IntCell(n) == [t |-> "int", v |-> <<>>, m |-> n, e |-> 0]

RECURSIVE Shortest(_, _)
Shortest(m, e) == IF e > 0 /\ m % 10 = 0 THEN Shortest(m \div 10, e - 1)
                  ELSE [t |-> "float", v |-> <<>>, m |-> m, e |-> e]

FloatCell(m, e) == Shortest(m, e)

\* repr(float) and polars' text of a Float64: at least one fractional digit
FloatToStr(c) ==
    IF c.e = 0 THEN NatToStr(c.m) \o <<".", "0">>
    ELSE NatToStr(c.m \div Pow10(c.e)) \o <<".">> \o ZeroPad(c.m % Pow10(c.e), c.e)

StrToFloat(cs) ==
    LET d == DotAt(cs)
        ip == SubSeq(cs, 1, d - 1)
        fp == SubSeq(cs, d + 1, Len(cs))
    IN FloatCell(DigitsToNat(ip \o fp), Len(fp))

\* the text a cell is written as (csv.DictWriter and DataFrame.write_csv)
CellToText(c) ==
    CASE c.t = "null" -> <<>>
      [] c.t = "str" -> c.v
      [] c.t = "int" -> IntToStr(c.m)
      [] OTHER -> FloatToStr(c)

\* polars' text -> Int64
StrToInt(cs) == IF cs[1] = "-" THEN 0 - DigitsToNat(Unsigned(cs))
                ELSE DigitsToNat(cs)

(* ------------------------------ datetimes ----------------------------- *)
\* A date or datetime value is <<year, month, day, hour, minute, second>>.
IsLeap(y) == (y % 4 = 0 /\ y % 100 # 0) \/ y % 400 = 0

DaysInMonth(y, mo) == IF mo = 2 THEN (IF IsLeap(y) THEN 29 ELSE 28)
                      ELSE IF mo \in {4, 6, 9, 11} THEN 30 ELSE 31

\* date.isoformat(): YYYY-MM-DD
IsoDate(dt) == ZeroPad(dt[1], 4) \o <<"-">> \o ZeroPad(dt[2], 2)
               \o <<"-">> \o ZeroPad(dt[3], 2)

\* datetime.isoformat(timespec="seconds") of a naive datetime
IsoSeconds(dt) == IsoDate(dt) \o <<"T">> \o ZeroPad(dt[4], 2) \o <<":">>
                  \o ZeroPad(dt[5], 2) \o <<":">> \o ZeroPad(dt[6], 2)

\* str.to_datetime("%Y-%m-%dT%H:%M:%S") on one non-null value (strict, exact):
\* the whole text must be consumed by the format.  Defined on text whose
\* numeric fields are zero-padded, with or without text after the seconds.
StrToDatetime(cs) ==
    LET shape == Len(cs) = 19
                 /\ cs[5] = "-" /\ cs[8] = "-" /\ cs[11] = "T"
                 /\ cs[14] = ":" /\ cs[17] = ":"
                 /\ \A i \in {1, 2, 3, 4, 6, 7, 9, 10, 12, 13, 15, 16, 18, 19} :
                        IsDigit(cs[i])
        dt == <<DigitsToNat(SubSeq(cs, 1, 4)), DigitsToNat(SubSeq(cs, 6, 7)),
                DigitsToNat(SubSeq(cs, 9, 10)), DigitsToNat(SubSeq(cs, 12, 13)),
                DigitsToNat(SubSeq(cs, 15, 16)), DigitsToNat(SubSeq(cs, 18, 19))>>
    IN IF shape /\ dt[2] \in 1..12 /\ dt[3] \in 1..DaysInMonth(dt[1], dt[2])
          /\ dt[4] \in 0..23 /\ dt[5] \in 0..59 /\ dt[6] \in 0..59
       THEN [ok |-> TRUE, dt |-> dt]
       ELSE [ok |-> FALSE, dt |-> <<0, 0, 0, 0, 0, 0>>]

\* a variant that converts to UTC from a zone one hour ahead before formatting
StrfTimeUtc(dt) == IsoSeconds([dt EXCEPT ![4] = (@ + 23) % 24]) \o <<"Z">>

\* dt.strftime("%Y-%m-%dT%H:%M:%SZ"): the fields again, then a literal Z
StrfTimeZ(dt) == IsoSeconds(dt) \o <<"Z">>

(* --------------------------- record generator ------------------------- *)
FieldNames == <<"person_name", "user_name", "email", "phone", "address",
                "mac_address", "ip_address", "iban", "birth_date",
                "accessed_at", "session_duration", "download_speed",
                "upload_speed", "consumed_traffic", "personal_number">>

\* the field names as text, in the order of FieldNames
FieldText ==
    << <<"p", "e", "r", "s", "o", "n", "_", "n", "a", "m", "e">>,
       <<"u", "s", "e", "r", "_", "n", "a", "m", "e">>,
       <<"e", "m", "a", "i", "l">>,
       <<"p", "h", "o", "n", "e">>,
       <<"a", "d", "d", "r", "e", "s", "s">>,
       <<"m", "a", "c", "_", "a", "d", "d", "r", "e", "s", "s">>,
       <<"i", "p", "_", "a", "d", "d", "r", "e", "s", "s">>,
       <<"i", "b", "a", "n">>,
       <<"b", "i", "r", "t", "h", "_", "d", "a", "t", "e">>,
       <<"a", "c", "c", "e", "s", "s", "e", "d", "_", "a", "t">>,
       <<"s", "e", "s", "s", "i", "o", "n", "_", "d", "u", "r", "a", "t", "i",
         "o", "n">>,
       <<"d", "o", "w", "n", "l", "o", "a", "d", "_", "s", "p", "e", "e", "d">>,
       <<"u", "p", "l", "o", "a", "d", "_", "s", "p", "e", "e", "d">>,
       <<"c", "o", "n", "s", "u", "m", "e", "d", "_", "t", "r", "a", "f", "f",
         "i", "c">>,
       <<"p", "e", "r", "s", "o", "n", "a", "l", "_", "n", "u", "m", "b", "e",
         "r">> >>

AccessedAt == FieldText[10]

UniqueId == <<"u", "n", "i", "q", "u", "e", "_", "i", "d">>

\* a variant that resolves a tie upward
PyRound2HalfUp(num, den) ==
    LET q == (100 * num) \div den
        r == (100 * num) % den
    IN IF 2 * r < den THEN q ELSE q + 1

\* round(num / den, 2) of a quotient the float holds exactly (den a power of
\* two): the result as a count of hundredths.  CPython rounds the exact value
\* and resolves a tie to the even neighbour.
PyRound2(num, den) ==
    LET q == (100 * num) \div den
        r == (100 * num) % den
    IN IF 2 * r < den THEN q
       ELSE IF 2 * r > den THEN q + 1
       ELSE IF q % 2 = 0 THEN q ELSE q + 1

\* consumed_traffic of generate_record, in hundredths of a MB
ConsumedTraffic(download_speed, upload_speed, session_duration) ==
    PyRound2((download_speed + upload_speed) * session_duration, 8)

\* str.replace(old, new) for a one-character old
RECURSIVE Replace(_, _, _)
Replace(cs, old, new) ==
    IF cs = <<>> THEN <<>>
    ELSE (IF cs[1] = old THEN new ELSE <<cs[1]>>) \o Replace(Tail(cs), old, new)

SampleTimes == << <<2024, 12, 31, 23, 59, 59>>, <<2025, 3, 1, 0, 0, 0>>,
                  <<2026, 2, 28, 7, 5, 9>>, <<2025, 10, 9, 12, 30, 0>> >>

SampleBirths == << <<1990, 1, 31, 0, 0, 0>>, <<1964, 2, 29, 0, 0, 0>>,
                   <<2008, 10, 30, 0, 0, 0>> >>

\* fake.phone_number(): the provider has formats with punctuation and
\* formats of ten bare digits, whose first digit may be 0
SamplePhone(k) ==
    IF k % 4 = 3 THEN <<"0">> \o NatToStr(555010000 + k)
    ELSE IF k % 4 = 0 THEN NatToStr(1555010000 + k)
    ELSE <<"+", "1", "-">> \o NatToStr(k)

\* What the provider and random.randint return for one record: the k-th
\* sample of the fake texts, dates and integers.
Draw(k) ==
    [name |-> <<"N">> \o NatToStr(k),
     user |-> <<"u">> \o NatToStr(k),
     email |-> <<"e", "@">> \o NatToStr(k),
     phone |-> SamplePhone(k),
     address |-> NatToStr(k) \o <<" ", "S", "\n", "C">>,
     mac |-> <<"a", ":">> \o NatToStr(k),
     ip |-> <<"1", ".", "2", ".">> \o NatToStr(k),
     iban |-> <<"G", "B">> \o NatToStr(k),
     birth |-> SampleBirths[((k - 1) % Len(SampleBirths)) + 1],
     accessed |-> SampleTimes[((k - 1) % Len(SampleTimes)) + 1],
     session_duration |-> MinDuration + k,
     download_speed |-> MinDown + k - 1,
     upload_speed |-> MinUp + 2 * (k - 1),
     personal |-> 1000000000 + k]

Draws == {Draw(k) : k \in 1..MaxSample}

generate_record(dr) ==
    [person_name |-> StrCell(dr.name),
     user_name |-> StrCell(dr.user),
     email |-> StrCell(dr.email),
     phone |-> StrCell(dr.phone),
     address |-> StrCell(Replace(dr.address, "\n", <<",", " ">>)),
     mac_address |-> StrCell(dr.mac),
     ip_address |-> StrCell(dr.ip),
     iban |-> StrCell(dr.iban),
     birth_date |-> StrCell(IsoDate(dr.birth)),
     accessed_at |-> StrCell(IsoSeconds(dr.accessed)),
     session_duration |-> IntCell(dr.session_duration),
     download_speed |-> IntCell(dr.download_speed),
     upload_speed |-> IntCell(dr.upload_speed),
     consumed_traffic |-> FloatCell(ConsumedTraffic(dr.download_speed,
                              dr.upload_speed, dr.session_duration), 2),
     personal_number |-> IntCell(dr.personal)]

\* [generate_record() for _ in range(n)], one draw per record
create_data(n, ds) == [i \in 1..n |-> generate_record(ds[i])]

(* ------------------------------- files -------------------------------- *)
\* The file at csv_path: whether it exists, and its text, one character per
\* element (every character here is one byte of UTF-8).
NoFile == [exists |-> FALSE, text |-> <<>>]

\* a file just opened with mode "w" or created by write_csv: it exists and
\* holds nothing
EmptyFile == [exists |-> TRUE, text |-> <<>>]

FileOf(text) == [exists |-> TRUE, text |-> text]

\* A handle opened for writing stands at offset 0 of the file it truncated
\* and writes its text there in one piece (the text is below the writer's
\* buffer size): the text replaces what the file holds from offset 0 on, and
\* what the file holds beyond the end of the text stays.
Overlay(f, text) ==
    FileOf(IF Len(f.text) > Len(text)
           THEN text \o SubSeq(f.text, Len(text) + 1, Len(f.text))
           ELSE text)

(* ------------------------------ CSV text ------------------------------ *)
\* a field is quoted when it holds the delimiter, the quote character or a
\* line break (csv.QUOTE_MINIMAL, and quote_style "necessary" of write_csv)
NeedsQuotes(cs) == \E i \in 1..Len(cs) : cs[i] \in {",", "\"", "\r", "\n"}

QuoteField(cs) ==
    IF NeedsQuotes(cs)
    THEN <<"\"">> \o Replace(cs, "\"", <<"\"", "\"">>) \o <<"\"">>
    ELSE cs

RECURSIVE JoinFields(_)
JoinFields(cells) ==
    IF cells = <<>> THEN <<>>
    ELSE IF Len(cells) = 1 THEN QuoteField(cells[1])
    ELSE QuoteField(cells[1]) \o <<",">> \o JoinFields(Tail(cells))

RECURSIVE JoinLines(_, _)
JoinLines(lines, eol) ==
    IF lines = <<>> THEN <<>>
    ELSE JoinFields(lines[1]) \o eol \o JoinLines(Tail(lines), eol)

\* the text of a table: the header line, then one line per row
CsvText(t, eol) == JoinLines(<<t.header>> \o t.rows, eol)

\* the positions of the quote characters of cs
QuotesIn(cs) == {q \in 1..Len(cs) : cs[q] = "\""}

\* the positions, in order, at which character c stands outside quotes
Cuts(cs, c, quotes) ==
    LET IsCut(i) == cs[i] = c /\ Cardinality({q \in quotes : q < i}) % 2 = 0
    IN SelectSeq([i \in 1..Len(cs) |-> i], IsCut)

\* the pieces of cs between the cut positions
Pieces(cs, cuts) ==
    [k \in 1..(Len(cuts) + 1) |->
        SubSeq(cs, IF k = 1 THEN 1 ELSE cuts[k - 1] + 1,
                   IF k = Len(cuts) + 1 THEN Len(cs) ELSE cuts[k] - 1)]

\* cs cut at every character c that stands outside quotes
Split(cs, c) == Pieces(cs, Cuts(cs, c, QuotesIn(cs)))

StripCr(line) ==
    IF line # <<>> /\ line[Len(line)] = "\r"
    THEN SubSeq(line, 1, Len(line) - 1) ELSE line

\* the inside of a quoted field: "" stands for one quote character
RECURSIVE Undouble(_)
Undouble(cs) ==
    IF cs = <<>> THEN <<>>
    ELSE IF Len(cs) >= 2 /\ cs[1] = "\"" /\ cs[2] = "\""
    THEN <<"\"">> \o Undouble(SubSeq(cs, 3, Len(cs)))
    ELSE <<cs[1]>> \o Undouble(Tail(cs))

Unquote(cs) ==
    IF Len(cs) >= 2 /\ cs[1] = "\"" /\ cs[Len(cs)] = "\""
    THEN Undouble(SubSeq(cs, 2, Len(cs) - 1))
    ELSE cs

UnquoteAll(parts) == [k \in 1..Len(parts) |-> Unquote(parts[k])]

CsvFields(line) == UnquoteAll(Split(line, ","))

NotBlank(line) == line # <<>>

StripAll(parts) == [k \in 1..Len(parts) |-> StripCr(parts[k])]

\* the lines of a text without their terminators (\n or \r\n); a blank line
\* is skipped, as read_csv skips it in a file of several columns
CsvLines(text) == SelectSeq(StripAll(Split(text, "\n")), NotBlank)

TableOf(lines) ==
    IF lines = <<>> THEN [header |-> <<>>, rows |-> <<>>]
    ELSE [header |-> CsvFields(lines[1]),
          rows |-> [k \in 1..(Len(lines) - 1) |-> CsvFields(lines[k + 1])]]

\* what a reader finds in the file: the fields of the first line, and the
\* fields of each later line
Table(f) == TableOf(CsvLines(f.text))

\* a variant that spends the first record on the header
DictWriterRowsAfterFirst(records) ==
    [header |-> FieldText,
     rows |-> [i \in 1..(Len(records) - 1) |->
                  [j \in 1..Len(FieldNames) |->
                      CellToText(records[i + 1][FieldNames[j]])]]]

\* csv.DictWriter(fieldnames=list(records[0].keys())): writeheader, writerows
DictWriterRows(records) ==
    [header |-> FieldText,
     rows |-> [i \in 1..Len(records) |->
                  [j \in 1..Len(FieldNames) |->
                      CellToText(records[i][FieldNames[j]])]]]

\* the text the writer puts in its buffer: excel dialect, lines end in \r\n
\* and pass through unchanged (newline="")
DictWriterText(records) == CsvText(DictWriterRows(records), <<"\r", "\n">>)

(* ------------------------------ DataFrame ----------------------------- *)
NoDf == [columns |-> <<>>, dtypes |-> <<>>, rows |-> <<>>]

\* the dtype pl.read_csv infers for column j from its non-empty cells (all
\* rows are within infer_schema_length here); dates are not parsed
InferDtype(rows, j) ==
    LET cells == {rows[i][j] : i \in 1..Len(rows)} \ {<<>>}
    IN IF cells = {} THEN "str"
       ELSE IF \A c \in cells : IsIntLiteral(c) THEN "int"
       ELSE IF \A c \in cells : IsIntLiteral(c) \/ IsFloatLiteral(c) THEN "float"
       ELSE "str"

ParseCell(dtype, cs) ==
    IF cs = <<>> THEN NullCell
    ELSE IF dtype = "int" THEN IntCell(StrToInt(cs))
    ELSE IF dtype = "float"
         THEN (IF DotAt(cs) = 0 THEN FloatCell(StrToInt(cs), 0) ELSE StrToFloat(cs))
    ELSE StrCell(cs)

\* the rows of a table, a row with fewer fields than the header filled up
\* with missing values
Padded(t) ==
    [i \in 1..Len(t.rows) |->
        [j \in 1..Len(t.header) |->
            IF j <= Len(t.rows[i]) THEN t.rows[i][j] ELSE <<>>]]

Typed(columns, dtypes, rows) ==
    [columns |-> columns,
     dtypes |-> dtypes,
     rows |-> [i \in 1..Len(rows) |->
                  [j \in 1..Len(columns) |-> ParseCell(dtypes[j], rows[i][j])]]]

\* the frame of a header and rows of text: a dtype per column, typed cells
Frame(columns, rows) ==
    Typed(columns, [j \in 1..Len(columns) |-> InferDtype(rows, j)], rows)

ReadTable(t) ==
    IF t.header = <<>>
    THEN [ok |-> FALSE, err |-> "NoDataError", df |-> NoDf]
    ELSE IF \E i \in 1..Len(t.rows) : Len(t.rows[i]) > Len(t.header)
    THEN [ok |-> FALSE, err |-> "ComputeError", df |-> NoDf]
    ELSE [ok |-> TRUE, err |-> "", df |-> Frame(t.header, Padded(t))]

\* pl.read_csv(csv_path): a missing file and a file without data raise; a
\* line with more fields than the header raises; a line with fewer fields is
\* filled with nulls
read_csv(f) ==
    IF ~f.exists THEN [ok |-> FALSE, err |-> "FileNotFoundError", df |-> NoDf]
    ELSE ReadTable(Table(f))

\* the text df.write_csv(csv_path) writes: lines end in \n
write_csv(df) ==
    CsvText([header |-> df.columns,
             rows |-> [i \in 1..Len(df.rows) |->
                          [j \in 1..Len(df.columns) |->
                              CellToText(df.rows[i][j])]]],
            <<"\n">>)

ColumnAt(df, name) ==
    IF \E j \in 1..Len(df.columns) : df.columns[j] = name
    THEN CHOOSE j \in 1..Len(df.columns) : df.columns[j] = name
    ELSE 0

\* a variant that never replaces: the series always becomes a new last column
with_columns_appends(df, name, dtype, values) ==
    [columns |-> Append(df.columns, name),
     dtypes |-> Append(df.dtypes, dtype),
     rows |-> [i \in 1..Len(df.rows) |-> Append(df.rows[i], values[i])]]

\* a variant that replaces by dropping the old column and appending the new
with_columns_moves(df, name, dtype, values) ==
    LET keep == {j \in 1..Len(df.columns) : df.columns[j] # name}
        Pick(seq) == [k \in 1..Cardinality(keep) |->
                         seq[CHOOSE j \in keep :
                                 Cardinality({x \in keep : x < j}) = k - 1]]
    IN [columns |-> Append(Pick(df.columns), name),
        dtypes |-> Append(Pick(df.dtypes), dtype),
        rows |-> [i \in 1..Len(df.rows) |-> Append(Pick(df.rows[i]), values[i])]]

\* df.with_columns(series): a column of that name is replaced where it
\* stands, a new name is appended as the last column
with_columns(df, name, dtype, values) ==
    LET at == ColumnAt(df, name)
    IN IF at = 0
       THEN [columns |-> Append(df.columns, name),
             dtypes |-> Append(df.dtypes, dtype),
             rows |-> [i \in 1..Len(df.rows) |-> Append(df.rows[i], values[i])]]
       ELSE [columns |-> df.columns,
             dtypes |-> [df.dtypes EXCEPT ![at] = dtype],
             rows |-> [i \in 1..Len(df.rows) |->
                          [df.rows[i] EXCEPT ![at] = values[i]]]]

\* str(uuid.uuid4()): the k-th identifier drawn; distinct draws give
\* distinct identifiers
uuid4(k) == <<"i", "d", "-">> \o NatToStr(k)

\* unique_ids = [str(uuid.uuid4()) for _ in range(df.height)]
unique_ids(height, first) == [i \in 1..height |-> StrCell(uuid4(first + i - 1))]

\* the frame add_id writes back
add_id_frame(df, first) ==
    with_columns(df, UniqueId, "str", unique_ids(Len(df.rows), first))

\* pl.col("accessed_at").str.to_datetime(fmt).dt.strftime(fmt + "Z"): a
\* missing column, a column that is not text, or any non-null value the
\* format rejects fails the whole expression; a null stays null
ConvertColumn(df, at) ==
    IF at = 0 THEN [ok |-> FALSE, err |-> "ColumnNotFoundError", df |-> df]
    ELSE IF df.dtypes[at] # "str"
    THEN [ok |-> FALSE, err |-> "InvalidOperationError", df |-> df]
    ELSE IF \E i \in 1..Len(df.rows) :
                df.rows[i][at].t # "null"
                /\ ~StrToDatetime(df.rows[i][at].v).ok
    THEN [ok |-> FALSE, err |-> "InvalidOperationError", df |-> df]
    ELSE [ok |-> TRUE, err |-> "",
          df |-> with_columns(df, AccessedAt, "str",
                     [i \in 1..Len(df.rows) |->
                         IF df.rows[i][at].t = "null" THEN NullCell
                         ELSE StrCell(StrfTimeZ(
                                  StrToDatetime(df.rows[i][at].v).dt))])]

update_datetime_frame(df) == ConvertColumn(df, ColumnAt(df, AccessedAt))

(* ------------------------------- state -------------------------------- *)
VARIABLES
    pc,         \* per invocation: the stage main is in, or how it ended
    phase,      \* per invocation, within a stage: "call" on entry, "io"
                \* when a patcher stage holds the frame it will write,
                \* "open" while the stage holds the file open for writing
    n_arg,      \* per invocation: args.records
    records,    \* per invocation: the batch create_data returned
    df,         \* per invocation: the DataFrame the current stage holds
    error,      \* per invocation: the exception that ended it, "" if none
    trail,      \* per invocation: the stages completed, in order
    file,       \* the file at csv_path
    prev,       \* the file before it was last opened for writing
    next_uuid,  \* how many identifiers uuid.uuid4 has drawn, plus one
    calls,      \* patcher harness: the calls made, <<name, succeeded>> each
    written,    \* patcher harness: the file as write_to_csv left it
    draw,       \* generator harness: what the provider and randint return
    record      \* generator harness: <<>> or <<the record generated>>

vars == <<pc, phase, n_arg, records, df, error, trail, file, prev, next_uuid,
          calls, written, draw, record>>

Procs == {1, 2}

pipeVars == <<pc, phase, n_arg, records, df, error, trail>>
harnessVars == <<calls, written, draw, record>>

(* -------------------------------- main -------------------------------- *)
\* a variant of main that normalizes the timestamps before adding the ids
MainNextDatetimeFirst(stage) ==
    CASE stage = "parse_args" -> "create_data"
      [] stage = "create_data" -> "write_to_csv"
      [] stage = "write_to_csv" -> "update_datetime"
      [] stage = "update_datetime" -> "add_id"
      [] OTHER -> "done"

\* main(): the stage that follows a completed stage
MainNext(stage) ==
    CASE stage = "parse_args" -> "create_data"
      [] stage = "create_data" -> "write_to_csv"
      [] stage = "write_to_csv" -> "add_id"
      [] stage = "add_id" -> "update_datetime"
      [] OTHER -> "done"

\* what argparse accepts for -r: any int (type=int); anything else is a
\* usage error and exit status 2
Args == {[int |-> TRUE, n |-> k] : k \in (0 - 1)..MaxRecords}
        \cup {[int |-> FALSE, n |-> 0]}

Advance(p, stage) ==
    /\ pc' = [pc EXCEPT ![p] = MainNext(stage)]
    /\ phase' = [phase EXCEPT ![p] = "call"]
    /\ trail' = [trail EXCEPT ![p] = IF stage = "parse_args" THEN @
                                     ELSE Append(@, stage)]
    /\ error' = error

Raise(p, err) ==
    /\ pc' = [pc EXCEPT ![p] = "crashed"]
    /\ error' = [error EXCEPT ![p] = err]
    /\ UNCHANGED <<phase, trail>>

ParseArgs(p) ==
    /\ pc[p] = "parse_args"
    /\ \E a \in Args :
          IF a.int
          THEN /\ n_arg' = [n_arg EXCEPT ![p] = a.n]
               /\ Advance(p, "parse_args")
          ELSE /\ pc' = [pc EXCEPT ![p] = "usage_error"]
               /\ UNCHANGED <<n_arg, phase, trail, error>>
    /\ UNCHANGED <<records, df, file, prev, next_uuid, harnessVars>>

CreateData(p) ==
    /\ pc[p] = "create_data"
    /\ \E ds \in [1..n_arg[p] -> Draws] :
          records' = [records EXCEPT ![p] = create_data(n_arg[p], ds)]
    /\ Advance(p, "create_data")
    /\ UNCHANGED <<n_arg, df, file, prev, next_uuid, harnessVars>>

\* the file is opened for writing: created, or emptied if it exists
OpenForWriting(p) ==
    /\ prev' = file
    /\ file' = EmptyFile
    /\ phase' = [phase EXCEPT ![p] = "open"]
    /\ UNCHANGED <<pc, error, trail>>

\* a variant that takes an exclusive lock on csv_path before opening it: it
\* waits while the other invocation holds a frame it read from the file or
\* has the file open
WriteToCsvOpenLocked(p) ==
    /\ pc[p] = "write_to_csv" /\ phase[p] = "call"
    /\ \A q \in Procs \ {p} : phase[q] = "call"
    /\ OpenForWriting(p)
    /\ UNCHANGED <<n_arg, records, df, next_uuid, harnessVars>>

\* write_to_csv up to csv_path.open("w"): the file exists and is empty
WriteToCsvOpen(p) ==
    /\ pc[p] = "write_to_csv" /\ phase[p] = "call"
    /\ OpenForWriting(p)
    /\ UNCHANGED <<n_arg, records, df, next_uuid, harnessVars>>

\* write_to_csv inside the with block, to its end.  records[0] of an empty
\* batch raises IndexError and the file is closed as it is.  Otherwise the
\* header and the rows go to the handle's buffer and reach the file when
\* the block closes it, at the handle's offset.
WriteToCsvClose(p) ==
    /\ pc[p] = "write_to_csv" /\ phase[p] = "open"
    /\ IF records[p] = <<>>
       THEN /\ file' = file
            /\ Raise(p, "IndexError")
       ELSE /\ file' = Overlay(file, DictWriterText(records[p]))
            /\ Advance(p, "write_to_csv")
    /\ UNCHANGED <<n_arg, records, df, prev, next_uuid, harnessVars>>

\* add_id up to the frame it will write: read, draw the identifiers, add
\* the column
\* invocation p holds frame out, to be written next, or has raised err
Hold(p, ok, out, err) ==
    IF ok
    THEN /\ df' = [df EXCEPT ![p] = out]
         /\ phase' = [phase EXCEPT ![p] = "io"]
         /\ UNCHANGED <<pc, error, trail>>
    ELSE /\ Raise(p, err)
         /\ df' = df

AddIdFrom(p, r) ==
    /\ Hold(p, r.ok, add_id_frame(r.df, next_uuid), r.err)
    /\ next_uuid' = next_uuid + Len(r.df.rows)

AddIdRead(p) ==
    /\ pc[p] = "add_id" /\ phase[p] = "call"
    /\ AddIdFrom(p, read_csv(file))
    /\ UNCHANGED <<n_arg, records, file, prev, harnessVars>>

\* update_datetime up to the frame it will write: read, convert the column;
\* an exception of either ends the stage before the file is touched
\* the frame update_datetime makes of what it read
Converted(r) == IF r.ok THEN update_datetime_frame(r.df) ELSE r

UpdateDatetimeFrom(p, u) == Hold(p, u.ok, u.df, u.err)

UpdateDatetimeRead(p) ==
    /\ pc[p] = "update_datetime" /\ phase[p] = "call"
    /\ UpdateDatetimeFrom(p, Converted(read_csv(file)))
    /\ UNCHANGED <<n_arg, records, file, prev, next_uuid, harnessVars>>

\* df.write_csv(csv_path) in add_id, first half: the file is created or
\* emptied
AddIdCreate(p) ==
    /\ pc[p] = "add_id" /\ phase[p] = "io"
    /\ OpenForWriting(p)
    /\ UNCHANGED <<n_arg, records, df, next_uuid, harnessVars>>

\* df.write_csv(csv_path) in add_id, second half: the frame's text is
\* written at the handle's offset, and add_id returns
AddIdWrite(p) ==
    /\ pc[p] = "add_id" /\ phase[p] = "open"
    /\ file' = Overlay(file, write_csv(df[p]))
    /\ Advance(p, "add_id")
    /\ UNCHANGED <<n_arg, records, df, prev, next_uuid, harnessVars>>

\* df.write_csv(csv_path) in update_datetime, first half
UpdateDatetimeCreate(p) ==
    /\ pc[p] = "update_datetime" /\ phase[p] = "io"
    /\ OpenForWriting(p)
    /\ UNCHANGED <<n_arg, records, df, next_uuid, harnessVars>>

\* df.write_csv(csv_path) in update_datetime, second half
UpdateDatetimeWrite(p) ==
    /\ pc[p] = "update_datetime" /\ phase[p] = "open"
    /\ file' = Overlay(file, write_csv(df[p]))
    /\ Advance(p, "update_datetime")
    /\ UNCHANGED <<n_arg, records, df, prev, next_uuid, harnessVars>>

(* ---------------------- one invocation of main ------------------------ *)
Idle == [p \in Procs |-> <<>>]

Init ==
    /\ pc = [p \in Procs |-> IF p = 1 THEN "parse_args" ELSE "idle"]
    /\ phase = [p \in Procs |-> "call"]
    /\ n_arg = [p \in Procs |-> 0]
    /\ records = Idle
    /\ df = [p \in Procs |-> NoDf]
    /\ error = [p \in Procs |-> ""]
    /\ trail = Idle
    /\ file = NoFile
    /\ prev = NoFile
    /\ next_uuid = 1
    /\ calls = <<>>
    /\ written = NoFile
    /\ draw = Draw(1)
    /\ record = <<>>

Next ==
    \E p \in {1} :
        \/ ParseArgs(p)
        \/ CreateData(p)
        \/ WriteToCsvOpen(p)
        \/ WriteToCsvClose(p)
        \/ AddIdRead(p)
        \/ AddIdCreate(p)
        \/ AddIdWrite(p)
        \/ UpdateDatetimeRead(p)
        \/ UpdateDatetimeCreate(p)
        \/ UpdateDatetimeWrite(p)

Spec == Init /\ [][Next]_vars

(* ------------------ two invocations of main, one path ----------------- *)
\* Two runs started in the same second with the same out_dir derive the same
\* file name.  Each has its batch in memory and is about to call
\* write_to_csv; their steps interleave freely.
ConcBatch(p) ==
    create_data(ConcRecords,
                [i \in 1..ConcRecords |-> Draw(((p + i - 2) % MaxSample) + 1)])

InitConc ==
    /\ pc = [p \in Procs |-> "write_to_csv"]
    /\ phase = [p \in Procs |-> "call"]
    /\ n_arg = [p \in Procs |-> ConcRecords]
    /\ records = [p \in Procs |-> ConcBatch(p)]
    /\ df = [p \in Procs |-> NoDf]
    /\ error = [p \in Procs |-> ""]
    /\ trail = [p \in Procs |-> <<"create_data">>]
    /\ file = NoFile
    /\ prev = NoFile
    /\ next_uuid = 1
    /\ calls = <<>>
    /\ written = NoFile
    /\ draw = Draw(1)
    /\ record = <<>>

\* the steps of invocation p from write_to_csv on: each is one access to the
\* file (open, write and close, read) with the computation that precedes it
Step(p) ==
    \/ WriteToCsvOpen(p)
    \/ WriteToCsvClose(p)
    \/ AddIdRead(p)
    \/ AddIdCreate(p)
    \/ AddIdWrite(p)
    \/ UpdateDatetimeRead(p)
    \/ UpdateDatetimeCreate(p)
    \/ UpdateDatetimeWrite(p)

NextConc == \E p \in Procs : Step(p)

SpecConc == InitConc /\ [][NextConc]_vars

(* --------------------- the patcher on a written file ------------------ *)
\* the outcome of a patcher call on file f: the frame is written to a file
\* created anew, or an exception has left f as it was
Rewritten(f, ok, out) ==
    IF ok THEN [ok |-> TRUE, file |-> Overlay(EmptyFile, write_csv(out)),
                height |-> Len(out.rows)]
    ELSE [ok |-> FALSE, file |-> f, height |-> 0]

AddIdOf(f, r, first) == Rewritten(f, r.ok, add_id_frame(r.df, first))

UpdateDatetimeOf(f, u) == Rewritten(f, u.ok, u.df)

\* add_id(csv_path) as one call: the file it leaves
add_id(f, first) == AddIdOf(f, read_csv(f), first)

\* update_datetime(csv_path) as one call: an exception leaves the file alone
update_datetime(f) == UpdateDatetimeOf(f, Converted(read_csv(f)))

\* The accessed_at text of a record handed to write_to_csv: as generated,
\* already normalized, or missing.
Variants == {"iso", "utc", "missing"}

GivenRecord(dr, variant) ==
    [generate_record(dr) EXCEPT !.accessed_at =
        IF variant = "iso" THEN @
        ELSE IF variant = "utc" THEN StrCell(StrfTimeZ(dr.accessed))
        ELSE StrCell(<<>>)]

InitPatcher ==
    /\ pc = [p \in Procs |-> "idle"]
    /\ phase = [p \in Procs |-> "call"]
    /\ n_arg = [p \in Procs |-> 0]
    /\ records = Idle
    /\ df = [p \in Procs |-> NoDf]
    /\ error = [p \in Procs |-> ""]
    /\ trail = Idle
    /\ \E n \in 1..MaxRecords :
          \E ds \in [1..n -> {Draw(k) : k \in 1..PatcherSample}] :
             \E vs \in [1..n -> Variants] :
                file = Overlay(EmptyFile,
                           DictWriterText([i \in 1..n |->
                                              GivenRecord(ds[i], vs[i])]))
    /\ written = file
    /\ prev = file
    /\ next_uuid = 1
    /\ calls = <<>>
    /\ draw = Draw(1)
    /\ record = <<>>

\* the harness after a call that returned r
Called(name, r) ==
    /\ file' = r.file
    /\ calls' = Append(calls, <<name, r.ok>>)
    /\ prev' = file

\* one identifier is drawn for each row of the frame add_id read
CalledAddId(r) ==
    /\ Called("add_id", r)
    /\ next_uuid' = next_uuid + r.height

CallAddId ==
    /\ Len(calls) < MaxCalls
    /\ CalledAddId(add_id(file, next_uuid))
    /\ UNCHANGED <<pipeVars, written, draw, record>>

CallUpdateDatetime ==
    /\ Len(calls) < MaxCalls
    /\ Called("update_datetime", update_datetime(file))
    /\ UNCHANGED <<pipeVars, written, next_uuid, draw, record>>

NextPatcher == CallAddId \/ CallUpdateDatetime

SpecPatcher == InitPatcher /\ [][NextPatcher]_vars

(* ------------------------- generate_record alone ---------------------- *)
Durations == (MinDuration..(MinDuration + DurationSpan))
             \cup ((MaxDuration - DurationSpan)..MaxDuration)
Downs == (MinDown..(MinDown + DownSpan)) \cup ((MaxDown - DownSpan)..MaxDown)
Ups == (MinUp..(MinUp + UpSpan)) \cup ((MaxUp - UpSpan)..MaxUp)

InitRecord ==
    /\ pc = [p \in Procs |-> "idle"]
    /\ phase = [p \in Procs |-> "call"]
    /\ n_arg = [p \in Procs |-> 0]
    /\ records = Idle
    /\ df = [p \in Procs |-> NoDf]
    /\ error = [p \in Procs |-> ""]
    /\ trail = Idle
    /\ file = NoFile
    /\ prev = NoFile
    /\ written = NoFile
    /\ next_uuid = 1
    /\ calls = <<>>
    /\ \E s \in Durations, d \in Downs, u \in Ups :
          draw = [Draw(1) EXCEPT !.session_duration = s,
                                 !.download_speed = d, !.upload_speed = u]
    /\ record = <<>>

GenerateRecord ==
    /\ record = <<>>
    /\ record' = <<generate_record(draw)>>
    /\ UNCHANGED <<pipeVars, file, prev, next_uuid, calls, written, draw>>

NextRecord == GenerateRecord

SpecRecord == InitRecord /\ [][NextRecord]_vars

(* ============================== properties ============================ *)
IsPrefix(a, b) == Len(a) <= Len(b) /\ SubSeq(b, 1, Len(a)) = a

Count(seq, x) == Cardinality({i \in 1..Len(seq) : seq[i] = x})

\* ^\d{4}-\d{2}-\d{2}T\d{2}:\d{2}:\d{2}$ on the first 19 characters
HasIsoShape(cs) ==
    /\ Len(cs) >= 19
    /\ \A i \in 1..19 :
          IF i \in {5, 8} THEN cs[i] = "-"
          ELSE IF i = 11 THEN cs[i] = "T"
          ELSE IF i \in {14, 17} THEN cs[i] = ":"
          ELSE cs[i] \in {"0", "1", "2", "3", "4", "5", "6", "7", "8", "9"}

MatchesIso(cs) == Len(cs) = 19 /\ HasIsoShape(cs)

MatchesIsoZ(cs) == Len(cs) = 20 /\ HasIsoShape(cs) /\ cs[20] = "Z"

\* the cell of row i of table t under column name
Cell(t, i, name) == t.rows[i][CHOOSE j \in 1..Len(t.header) : t.header[j] = name]

HasColumn(t, name) == \E j \in 1..Len(t.header) : t.header[j] = name

\* every row of table t has one cell per column
Rectangular(t) == \A i \in 1..Len(t.rows) : Len(t.rows[i]) = Len(t.header)

\* tables t and u agree on the header and on every cell outside column name
SameExcept(t, u, name) ==
    /\ t.header = u.header
    /\ Len(t.rows) = Len(u.rows)
    /\ Rectangular(t) /\ Rectangular(u)
    /\ \A i \in 1..Len(t.rows) : \A j \in 1..Len(t.header) :
          t.header[j] # name => t.rows[i][j] = u.rows[i][j]

(* C1: in every run of main the stages complete in the order create_data,
   write_to_csv, add_id, update_datetime, none skipped or repeated; a stage
   is entered only when the previous stage's file write is complete; done is
   reached only with all four stages completed and no error; a run that
   failed has completed only the stages before the failing one. *)
C1_StageOrder ==
    LET order == <<"create_data", "write_to_csv", "add_id", "update_datetime">>
        at == Len(trail[1]) + 1
        t == Table(file)
    IN /\ IsPrefix(trail[1], order)
       /\ pc[1] \in Range(order) => pc[1] = order[at]
       /\ pc[1] = "done" => trail[1] = order /\ error[1] = ""
       /\ pc[1] = "crashed" =>
             /\ error[1] # ""
             /\ Len(trail[1]) < Len(order)
             /\ (error[1] = "IndexError" =>
                    trail[1] = <<"create_data">> /\ file = EmptyFile)
       /\ (pc[1] = "add_id" /\ phase[1] = "call") =>
             file = FileOf(DictWriterText(records[1]))
       /\ (pc[1] = "update_datetime" /\ phase[1] = "call") =>
             /\ HasColumn(t, UniqueId)
             /\ Len(t.rows) = Len(records[1])
       /\ pc[1] = "done" =>
             \A i \in 1..Len(t.rows) : MatchesIsoZ(Cell(t, i, AccessedAt))

C1_Witness == pc[1] = "done" /\ trail[1] = <<"create_data", "write_to_csv",
                                              "add_id", "update_datetime">>

(* C2: for n >= 1, create_data(n) returns exactly n records, and from the
   completion of write_to_csv onward the file holds exactly n data rows. *)
C2_RowCount ==
    n_arg[1] >= 1 =>
        /\ Len(trail[1]) >= 1 => Len(records[1]) = n_arg[1]
        /\ (Len(trail[1]) >= 2 /\ phase[1] # "open") =>
              /\ file.exists
              /\ Len(Table(file).rows) = n_arg[1]
              /\ Rectangular(Table(file))

C2_Witness == pc[1] = "done" /\ n_arg[1] = 2 /\ Len(Table(file).rows) = 2

(* C3: when add_id has completed on the written file, the header is the old
   header with the single column unique_id appended last, the rows are the
   old rows in the old order each with one identifier appended, the
   identifiers are pairwise distinct, and the value of every other column
   in every row is as write_to_csv wrote it. *)
C3_AddId ==
    (pc[1] = "update_datetime" /\ phase[1] = "call") =>
        LET t == Table(file)
            o == Table(prev)
        IN /\ prev = FileOf(DictWriterText(records[1]))
           /\ t.header = Append(o.header, UniqueId)
           /\ Count(t.header, UniqueId) = 1
           /\ Len(t.rows) = Len(o.rows)
           /\ \A i \in 1..Len(t.rows) :
                 /\ Len(t.rows[i]) = Len(o.rows[i]) + 1
                 /\ SubSeq(t.rows[i], 1, Len(o.rows[i])) = o.rows[i]
                 /\ t.rows[i][Len(t.rows[i])] # <<>>
           /\ \A i, j \in 1..Len(t.rows) :
                 i # j => Cell(t, i, UniqueId) # Cell(t, j, UniqueId)

(* C4: when update_datetime has succeeded on a file whose accessed_at values
   all have the form YYYY-MM-DDTHH:MM:SS, every accessed_at is its previous
   value with a Z appended and matches YYYY-MM-DDTHH:MM:SSZ, and the header,
   the row order and every other column are unchanged. *)
C4_UpdateDatetime ==
    LET t == Table(file)
        o == Table(prev)
    IN (pc[1] = "done"
        /\ \A i \in 1..Len(o.rows) : MatchesIso(Cell(o, i, AccessedAt))) =>
           /\ SameExcept(t, o, AccessedAt)
           /\ \A i \in 1..Len(t.rows) :
                 /\ Cell(t, i, AccessedAt) = Cell(o, i, AccessedAt) \o <<"Z">>
                 /\ MatchesIsoZ(Cell(t, i, AccessedAt))

C4_Witness ==
    LET t == Table(file)
        o == Table(prev)
    IN /\ pc[1] = "done"
       /\ Len(t.rows) = 2
       /\ \A i \in 1..Len(o.rows) : MatchesIso(Cell(o, i, AccessedAt))
       /\ Cell(t, 1, AccessedAt) # Cell(t, 2, AccessedAt)

(* C5: a run with n = 0 ends either with a header-only file that add_id and
   update_datetime processed without error, or with a clean configuration
   error; it never ends in an unhandled exception inside a stage. *)
C5_EmptyBatch ==
    (n_arg[1] = 0 /\ pc[1] \in {"done", "crashed", "usage_error"}) =>
        \/ pc[1] = "usage_error"
        \/ /\ pc[1] = "done"
           /\ file.exists
           /\ Table(file).header # <<>> /\ Table(file).rows = <<>>

(* C7 as claimed: consumed_traffic is (download_speed + upload_speed) *
   session_duration / 8 rounded half-up to 2 fractional digits, also where
   the quotient ends in .125, .375, .625 or .875.  With N the product and h
   the result in hundredths, 100 * N / 8 = 25 * N / 2. *)
C7_HalfUp ==
    record # <<>> =>
        LET c == record[1].consumed_traffic
            h == c.m * Pow10(2 - c.e)
            n == (draw.download_speed + draw.upload_speed) * draw.session_duration
        IN /\ c.t = "float" /\ c.e <= 2
           /\ 2 * h - 25 * n \in {0 - 1, 0, 1}
           /\ 2 * h - 25 * n # 0 - 1

(* C7 as amended: the quotient is rounded to the nearest hundredth, and a
   quotient exactly halfway between two hundredths goes to the even one. *)
C7_HalfEven ==
    record # <<>> =>
        LET c == record[1].consumed_traffic
            h == c.m * Pow10(2 - c.e)
            n == (draw.download_speed + draw.upload_speed) * draw.session_duration
        IN /\ c.t = "float" /\ c.e <= 2
           /\ 2 * h - 25 * n \in {0 - 1, 0, 1}
           /\ 2 * h - 25 * n # 0 => h % 2 = 0

C7_Witness ==
    /\ record # <<>>
    /\ LET c == record[1].consumed_traffic
           h == c.m * Pow10(2 - c.e)
           n == (draw.download_speed + draw.upload_speed) * draw.session_duration
       IN 2 * h - 25 * n = 0 - 1

LastCall == calls[Len(calls)]

(* C6: update_datetime on a file in which some accessed_at value does not
   match YYYY-MM-DDTHH:MM:SS fails for the whole file and leaves the file
   exactly as it was; so does a second update_datetime on a normalized
   file. *)
C6_ParseErrorFatal ==
    (/\ calls # <<>>
     /\ LastCall[1] = "update_datetime"
     /\ \E i \in 1..Len(Table(prev).rows) :
           ~MatchesIso(Cell(Table(prev), i, AccessedAt))) =>
        LastCall[2] = FALSE /\ file = prev

\* the table of a file as write_to_csv leaves it after create_data
Fresh(t) == \A i \in 1..Len(t.rows) : MatchesIso(Cell(t, i, AccessedAt))

(* C8: on a freshly written file both orders of add_id and update_datetime
   succeed, and the file one order leaves has the same header, row order,
   accessed_at values and original column values as the file the other
   order leaves; only the unique_id values may differ. *)
C8_Commute ==
    Fresh(Table(written)) =>
        /\ calls = << <<"update_datetime", TRUE>>, <<"add_id", TRUE>> >> =>
              SameExcept(Table(file),
                         Table(update_datetime(add_id(written, 1).file).file),
                         UniqueId)
        /\ calls = << <<"add_id", TRUE>>, <<"update_datetime", TRUE>> >> =>
              SameExcept(Table(file),
                         Table(add_id(update_datetime(written).file, 1).file),
                         UniqueId)
        /\ (Len(calls) = 2 /\ calls[1][1] # calls[2][1]) =>
              calls[1][2] /\ calls[2][2]

C8_Witness ==
    /\ Fresh(Table(written))
    /\ Len(Table(written).rows) = 2
    /\ calls = << <<"update_datetime", TRUE>>, <<"add_id", TRUE>> >>
    /\ HasColumn(Table(file), UniqueId)

(* C10: after any sequence of add_id and update_datetime calls on a file
   written from n >= 1 records, failed calls included, the file has n data
   rows, the 15 original columns first and in order, and at most one
   unique_id column; an add_id on a file that has the column replaces its
   values with fresh ones and changes nothing else. *)
C10_PatcherFrame ==
    LET t == Table(file)
        o == Table(prev)
    IN /\ Len(t.rows) = Len(Table(written).rows)
       /\ Len(t.rows) >= 1
       /\ Rectangular(t)
       /\ SubSeq(t.header, 1, 15) = FieldText
       /\ Count(t.header, UniqueId) <= 1
       /\ Len(t.header) = 15 + Count(t.header, UniqueId)
       /\ (/\ calls # <<>>
           /\ LastCall[1] = "add_id"
           /\ HasColumn(o, UniqueId)) =>
             /\ LastCall[2]
             /\ SameExcept(t, o, UniqueId)
             /\ \A i \in 1..Len(t.rows) :
                   Cell(t, i, UniqueId) # Cell(o, i, UniqueId)

C10_Witness ==
    /\ Len(calls) = 3
    /\ calls[1] = <<"add_id", TRUE>>
    /\ calls[2] = <<"update_datetime", FALSE>>
    /\ calls[3] = <<"add_id", TRUE>>
    /\ Count(Table(file).header, UniqueId) = 1

\* what invocation p alone leaves at csv_path
Solo(p) ==
    update_datetime(add_id(FileOf(DictWriterText(records[p])), 1).file).file

(* C9: two invocations on one path are not isolated.  No stage takes a
   lock: an invocation that is about to open the file for writing, or has
   it open, can always take that step, wherever the other invocation
   stands.  The witness is a run in which both invocations ended without an
   error and the file is what neither of them leaves when it runs alone. *)
C9_Unlocked ==
    \A p \in Procs :
        /\ (pc[p] = "write_to_csv" /\ phase[p] = "call") =>
              ENABLED WriteToCsvOpen(p)
        /\ (pc[p] = "write_to_csv" /\ phase[p] = "open") =>
              ENABLED WriteToCsvClose(p)
        /\ (pc[p] = "add_id" /\ phase[p] = "io") => ENABLED AddIdCreate(p)
        /\ (pc[p] = "add_id" /\ phase[p] = "open") => ENABLED AddIdWrite(p)

C9_Witness ==
    /\ pc[1] = "done" /\ pc[2] = "done"
    /\ \A p \in Procs : ~SameExcept(Table(file), Table(Solo(p)), UniqueId)
====
